---- MODULE Spec2Model ----
(***************************************************************************)
(* Model of the encode-job supervisor of mkv_compressor:                   *)
(*   core/compressor.py  VideoCompressor.compress_video and the helpers    *)
(*                       it drives (_single_pass_encode, _two_pass_encode, *)
(*                       _monitor_progress, _parse_ffmpeg_output,          *)
(*                       _cleanup_pass_files),                             *)
(*   gui/main_window.py  CompressorGUI._compression_worker and             *)
(*                       ProgressWindow.cancel_compression.                *)
(*                                                                         *)
(* The external engine (the ffmpeg child process) is the environment: it   *)
(* writes diagnostic lines on its error channel, writes the pass log in    *)
(* the working directory and exits with a code of its choice.              *)
(*                                                                         *)
(* Spec     one call of compress_video by an arbitrary caller.             *)
(* SpecGUI  the batch worker of the GUI: one compress_video call per       *)
(*          file, always single-pass (every preset of                      *)
(*          get_compression_presets leaves two_pass False), with the       *)
(*          Cancel button of the progress window.                          *)
(***************************************************************************)
EXTENDS Integers, Sequences, FiniteSets

\* ---------------------------------------------------------------- bounds
\* largest timestamp (seconds) a diagnostic line carries
MaxTime == 2
\* most delimiter-terminated diagnostic lines one engine process writes
MaxLines == 1
\* most files of one GUI batch
MaxFiles == 2

\* Total durations the probe reports.  Every one of them divides 50, so
\* that current/total*100 and its half are whole numbers and the integer
\* arithmetic below is exactly the float arithmetic of the code.  0 is the
\* duration for which _parse_ffmpeg_output delivers nothing.
Durations == {0, 1, 2}

Times == 0..MaxTime

\* exit codes of the engine process
ExitCodes == {0, 1}

\* The error channel is a sequence of tokens: the text "time=HH:MM:SS.ff"
\* of a progress line (its timestamp in seconds is t) and the two
\* delimiters the engine ends a progress line with.
TimeTok(t) == [kind |-> "time", t |-> t]
LF == [kind |-> "LF", t |-> 0]
CR == [kind |-> "CR", t |-> 0]
Delims == {LF, CR}

\* most tokens of the chunk one read of the error channel returns
MaxChunk == 3

\* most set calls of one run
MaxSets == 3

\* most add_recent_directory calls of one run
MaxAdds == 12

\* len(recent) > 10, recent[:10]
RecentLimit == 10

\* Directories are numbered; one more than the list can hold, so that the
\* list overflows.
NumDirs == RecentLimit + 1
Directories == 1..NumDirs

\* the two lists: recent_input_directories, recent_output_directories
DirectoryTypes == {"input", "output"}

\* file names of the working directory
PassLog == "ffmpeg2pass-0.log"
OtherFile == "notes.txt"

Passes == {1, 2}

\* the concurrent two-pass jobs and the working directories of their callers
Jobs == {1, 2}
Dirs == {1, 2}

\* Settings are a tree: a leaf holds a scalar, a dict maps names to nodes.
\* A key string and a name are sequences of characters.
EmptyDict == [n \in {} |-> 0]
Leaf(v) == [kind |-> "leaf", val |-> v, items |-> EmptyDict]
Dict(f) == [kind |-> "dict", val |-> 0, items |-> f]

\* no get call yet
NoGet == [called |-> FALSE, key |-> <<>>, default |-> Leaf(0),
          value |-> Leaf(0)]

\* get_default_settings: a scalar setting ("b", as max_log_files) and a
\* nested section ("c" with the entry "a", as advanced_settings with
\* thread_count)
DefaultSettings ==
    Dict([n \in {<<"b">>, <<"c">>} |->
             IF n = <<"b">> THEN Leaf(0)
             ELSE Dict([m \in {<<"a">>} |-> Leaf(0)])])

VARIABLES
    pc,             \* position of the caller / of compress_video
    caller,         \* "api": one compress_video call; "gui": the batch worker
    two_pass,       \* settings.two_pass / progress.is_two_pass
    overwrite,      \* the overwrite argument
    has_sink,       \* progress_callback given
    input_exists,   \* os.path.exists(input_path)
    output_exists,  \* os.path.exists(output_path)
    total_duration, \* progress.total_duration (video_info.duration)
    probe_calls,    \* number of get_video_info calls of the job
    pass_number,    \* pass_number argument of the running _monitor_progress
    proc,           \* proc[p]: "none", "running" or "exited" (process, process1, process2)
    returncode,     \* returncode[p]: <<>> (None) or <<code>>
    stderr,         \* unread content of the current process's error channel
    buffer,         \* local buffer of _monitor_progress
    nwritten,       \* terminated lines the current engine process has written
    cwd_files,      \* files of the current working directory
    sink,           \* values the progress sink received in this job, in order
    result,         \* return value of compress_video once pc = "returned"
    error,          \* class of the exception that ended the job, or "none"
    monitor_error,  \* passes whose _monitor_progress ended in its except clause
    is_cancelled,   \* ProgressWindow.is_cancelled
    cancel_in_job,  \* Cancel was pressed while a pass of this job was running
    total_files,    \* len(self.input_files)
    file_index,     \* loop index i of the worker
    successful,     \* successful counter of the worker
    finished,       \* compression_finished: "no", "success" or "failure"
    cleanup_raised, \* _cleanup_pass_files caught an exception in this job
    fed,            \* text units the latest iteration of the loop of
                    \* _monitor_progress passed to _parse_ffmpeg_output
    waited          \* passes whose process the job has waited on

\* ------------------------------------------- state of the other components
\* VideoCompressor.__init__ / _verify_ffmpeg
VARIABLES
    instance,        \* "none", "verified" (constructed) or "failed" (raised)
    verify_calls,    \* runs of [ffmpeg_path, "-version"]
    verify_outcome,  \* what the last run did: "none", "zero", "nonzero",
                     \* "timeout", "missing" or "denied"
    construct_error  \* class of the exception __init__ raised, or "none"

ctorVars == <<instance, verify_calls, verify_outcome, construct_error>>

\* two two-pass jobs run by independent callers
VARIABLES
    job_cwd,         \* job_cwd[j]: working directory of the caller of job j
    job_pc,          \* job_pc[j]: position of job j in _two_pass_encode
    job_proc,        \* job_proc[j][p]: "none", "running" or "exited"
    job_returncode,  \* job_returncode[j][p]: <<>> or <<code>>
    job_result,      \* job_result[j]: return value once job_pc[j] = "returned"
    job_cleanup_raised, \* job_cleanup_raised[j]: its cleanup caught an exception
    dir_passlog,     \* dir_passlog[d]: job whose pass 1 wrote the pass log
                     \* that directory d holds, 0 when it holds none
    job_log_read,    \* job_log_read[j]: <<>>, or <<w>> when pass 2 of job j
                     \* opened the pass log (w its writer, 0: no log)
    swept_foreign    \* jobs whose cleanup removed a log another job wrote

concVars == <<job_cwd, job_pc, job_proc, job_returncode, job_result,
              job_cleanup_raised, dir_passlog, job_log_read, swept_foreign>>

\* ConfigManager: the recent-directory lists
VARIABLES
    directory_type,  \* directory_type argument of the calls
    recent,          \* recent[ty]: settings["recent_<ty>_directories"]
    last_directory,  \* directory argument of the last call, 0 when none
    nadds            \* add_recent_directory calls so far

recentVars == <<directory_type, recent, last_directory, nadds>>

\* ConfigManager: settings, get and set
VARIABLES
    settings,        \* self.settings
    last_key,        \* key argument of the last set call
    last_value,      \* value argument of the last set call
    set_raised,      \* the last set call raised TypeError
    set_keys,        \* keys of the set calls that returned
    nsets,           \* set calls so far
    last_get         \* the get call made since the last set call, if any:
                     \* its arguments and the value it returned

configVars == <<settings, last_key, last_value, set_raised, set_keys, nsets,
                last_get>>

\* the Command Builder: scaling settings and the commands built
VARIABLES
    width,           \* settings.width, 0 for None
    height,          \* settings.height, 0 for None
    scale_filter,    \* settings.scale_filter, "" for None
    max_bitrate,     \* settings.max_bitrate, "" for None
    plan             \* the commands built for the job, in pass order

buildVars == <<width, height, scale_filter, max_bitrate, plan>>

\* the components that take no step while a job or the GUI worker runs
libVars == <<ctorVars, concVars, recentVars, configVars, buildVars>>

vars == <<libVars, fed, waited, cleanup_raised, pc, caller, two_pass, overwrite, has_sink, input_exists,
          output_exists, total_duration, probe_calls, pass_number, proc,
          returncode, stderr, buffer, nwritten, cwd_files, sink, result,
          error, monitor_error, is_cancelled, cancel_in_job, total_files,
          file_index, successful, finished>>

settingsVars == <<caller, two_pass, overwrite, has_sink, input_exists,
                  output_exists>>
guiVars == <<is_cancelled, cancel_in_job, total_files, file_index,
             successful, finished>>
procVars == <<proc, returncode, nwritten>>

\* ------------------------------------------------------- pure functions
Min(a, b) == IF a < b THEN a ELSE b
Max(a, b) == IF a > b THEN a ELSE b

IsTime(tok) == tok.kind = "time"

\* str.startswith("ffmpeg2pass") on the file names of the model
StartsWithPassPrefix(f) == f = PassLog

\* max(0, min(99, x)) with the upper bound forgotten
ClampNoUpper(x) == Max(0, x)
\* max(0, min(99, x)) with 100 as the upper bound
ClampTo100(x) == Max(0, Min(100, x))
\* final_progress = max(0, min(99, final_progress))
ClampProgress(x) == Max(0, Min(99, x))

\* the rescaling with the offset of pass 2 forgotten
FinalProgressNoOffset(t, total, is_two_pass, pass) ==
    IF is_two_pass
    THEN (t * 50) \div total
    ELSE (t * 100) \div total
\* base_progress and its two-pass rescaling for timestamp t
FinalProgress(t, total, is_two_pass, pass) ==
    IF is_two_pass
    THEN IF pass = 1
         THEN (t * 50) \div total
         ELSE 50 + ((t * 50) \div total)
    ELSE (t * 100) \div total

\* time tokens of a line; re.search takes the first
TimeIndexes(line) == {i \in 1..Len(line) : IsTime(line[i])}
FirstTime(line) ==
    line[CHOOSE i \in TimeIndexes(line) :
             \A j \in TimeIndexes(line) : i <= j].t

\* _parse_ffmpeg_output: the sequence of values it hands to the sink
\* (empty or one value)
parse_ffmpeg_output(line, total, callback, is_two_pass, pass) ==
    IF line = <<>> \/ ~callback THEN <<>>
    ELSE IF TimeIndexes(line) = {} THEN <<>>
    ELSE IF total > 0
         THEN <<ClampProgress(FinalProgress(FirstTime(line), total,
                                            is_two_pass, pass))>>
         ELSE <<>>

\* str.strip(): the tokens of a line that are whitespace are its CRs
RECURSIVE StripLeft(_)
StripLeft(line) ==
    IF line # <<>> /\ Head(line) = CR THEN StripLeft(Tail(line)) ELSE line
RECURSIVE StripRight(_)
StripRight(line) ==
    IF line # <<>> /\ line[Len(line)] = CR
    THEN StripRight(SubSeq(line, 1, Len(line) - 1))
    ELSE line
Strip(line) == StripRight(StripLeft(line))

IndexesOf(tok, buf) == {i \in 1..Len(buf) : buf[i] = tok}
FirstIndexOf(tok, buf) ==
    CHOOSE i \in IndexesOf(tok, buf) : \A j \in IndexesOf(tok, buf) : i <= j

\* the extraction loop of _monitor_progress: while the buffer holds a
\* delimiter, split at the first LF if there is one, else at the first CR.
\* Result: the lines in extraction order and the remaining buffer.
RECURSIVE ExtractLines(_)
ExtractLines(buf) ==
    IF IndexesOf(LF, buf) = {} /\ IndexesOf(CR, buf) = {}
    THEN [lines |-> <<>>, rest |-> buf]
    ELSE LET k == IF IndexesOf(LF, buf) # {}
                  THEN FirstIndexOf(LF, buf)
                  ELSE FirstIndexOf(CR, buf)
             r == ExtractLines(SubSeq(buf, k + 1, Len(buf)))
         IN  [lines |-> <<SubSeq(buf, 1, k - 1)>> \o r.lines,
              rest |-> r.rest]

\* the text units the extraction loop passes to _parse_ffmpeg_output:
\* line_str = line.strip(); if line_str: ...
FedUnits(lines) ==
    SelectSeq([i \in 1..Len(lines) |-> Strip(lines[i])],
              LAMBDA u : u # <<>>)

\* the values the sink receives for a sequence of extracted lines
RECURSIVE DeliverLines(_, _, _, _, _)
DeliverLines(lines, total, callback, is_two_pass, pass) ==
    IF lines = <<>> THEN <<>>
    ELSE parse_ffmpeg_output(Strip(Head(lines)), total, callback,
                             is_two_pass, pass)
         \o DeliverLines(Tail(lines), total, callback, is_two_pass, pass)


\* ---------------------------------------------------------------- state
NoProc == [p \in Passes |-> "none"]
NoCode == [p \in Passes |-> <<>>]

\* the job state at the entry of compress_video (no process, empty sink)
JobReset ==
    /\ total_duration' = 0
    /\ probe_calls' = 0
    /\ pass_number' = 1
    /\ proc' = NoProc
    /\ returncode' = NoCode
    /\ stderr' = <<>>
    /\ buffer' = <<>>
    /\ nwritten' = 0
    /\ sink' = <<>>
    /\ result' = FALSE
    /\ error' = "none"
    /\ monitor_error' = {}
    /\ cleanup_raised' = FALSE
    /\ fed' = <<>>
    /\ waited' = {}

\* idle values of the other components
CtorDone ==
    /\ instance = "verified"
    /\ verify_calls = 1
    /\ verify_outcome = "zero"
    /\ construct_error = "none"

ConcIdle ==
    /\ job_cwd = [j \in Jobs |-> 1]
    /\ job_pc = [j \in Jobs |-> "idle"]
    /\ job_proc = [j \in Jobs |-> NoProc]
    /\ job_returncode = [j \in Jobs |-> NoCode]
    /\ job_result = [j \in Jobs |-> FALSE]
    /\ job_cleanup_raised = [j \in Jobs |-> FALSE]
    /\ dir_passlog = [d \in Dirs |-> 0]
    /\ job_log_read = [j \in Jobs |-> <<>>]
    /\ swept_foreign = {}

RecentIdle ==
    /\ directory_type = "input"
    /\ recent = [ty \in DirectoryTypes |-> <<>>]
    /\ last_directory = 0
    /\ nadds = 0

ConfigIdle ==
    /\ settings = DefaultSettings
    /\ last_key = <<>>
    /\ last_value = Leaf(0)
    /\ set_raised = FALSE
    /\ set_keys = {}
    /\ nsets = 0
    /\ last_get = NoGet

BuildIdle ==
    /\ width = 0
    /\ height = 0
    /\ scale_filter = ""
    /\ max_bitrate = ""
    /\ plan = <<>>

LibIdle == CtorDone /\ ConcIdle /\ RecentIdle /\ ConfigIdle /\ BuildIdle

\* The arguments of one compress_video call and the file system it finds
\* are the caller's and the environment's choice.
JobEntry ==
    /\ caller = "api"
    /\ two_pass \in BOOLEAN
    /\ overwrite \in BOOLEAN
    /\ has_sink \in BOOLEAN
    /\ input_exists \in BOOLEAN
    /\ output_exists \in BOOLEAN
    /\ total_duration = 0
    /\ probe_calls = 0
    /\ pass_number = 1
    /\ proc = NoProc
    /\ returncode = NoCode
    /\ stderr = <<>>
    /\ buffer = <<>>
    /\ nwritten = 0
    /\ cwd_files = {OtherFile}
    /\ sink = <<>>
    /\ result = FALSE
    /\ error = "none"
    /\ monitor_error = {}
    /\ cleanup_raised = FALSE
    /\ fed = <<>>
    /\ waited = {}
    /\ is_cancelled = FALSE
    /\ cancel_in_job = FALSE
    /\ total_files = 1
    /\ file_index = 0
    /\ successful = 0
    /\ finished = "no"

\* One call of compress_video through a constructed VideoCompressor
Init ==
    /\ pc = "validate"
    /\ JobEntry
    /\ LibIdle

\* compress_video returns False from one of its except clauses, or from a
\* return False, after an exception of class e ("none": no exception)
ReturnFalse(e) ==
    /\ pc' = "returned"
    /\ result' = FALSE
    /\ error' = e

\* ------------------------------------------------------- compress_video
\* if not os.path.exists(input_path): raise FileNotFoundError
ValidateInput ==
    /\ pc = "validate"
    /\ IF input_exists
       THEN pc' = "check_output" /\ UNCHANGED <<result, error>>
       ELSE ReturnFalse("FileNotFoundError")
    /\ UNCHANGED <<libVars, fed, waited, cleanup_raised, settingsVars, guiVars, procVars, stderr, total_duration,
                   probe_calls, pass_number, buffer, cwd_files, sink,
                   monitor_error>>

\* the output-exists check left out: the job goes on to the probe
CheckOutputExistsSkipped ==
    /\ pc = "check_output"
    /\ pc' = "makedirs"
    /\ UNCHANGED <<result, error>>
    /\ UNCHANGED <<libVars, fed, waited, cleanup_raised, settingsVars, guiVars, procVars, stderr, total_duration,
                   probe_calls, pass_number, buffer, cwd_files, sink,
                   monitor_error>>

\* if os.path.exists(output_path) and not overwrite: raise FileExistsError
CheckOutputExists ==
    /\ pc = "check_output"
    /\ IF output_exists /\ ~overwrite
       THEN ReturnFalse("FileExistsError")
       ELSE pc' = "makedirs" /\ UNCHANGED <<result, error>>
    /\ UNCHANGED <<libVars, fed, waited, cleanup_raised, settingsVars, guiVars, procVars, stderr, total_duration,
                   probe_calls, pass_number, buffer, cwd_files, sink,
                   monitor_error>>

\* os.makedirs(os.path.dirname(output_path), exist_ok=True)
MakeOutputDir ==
    /\ pc = "makedirs"
    /\ \E ok \in BOOLEAN :
          IF ok
          THEN pc' = "probe" /\ UNCHANGED <<result, error>>
          ELSE ReturnFalse("OSError")
    /\ UNCHANGED <<libVars, fed, waited, cleanup_raised, settingsVars, guiVars, procVars, stderr, total_duration,
                   probe_calls, pass_number, buffer, cwd_files, sink,
                   monitor_error>>

\* the probe's failure recorded but not propagated: the job goes on to
\* the encode without a duration
GetVideoInfoContinues ==
    /\ pc = "probe"
    /\ probe_calls' = probe_calls + 1
    /\ \E ok \in BOOLEAN, d \in Durations :
          IF ok
          THEN /\ total_duration' = d
               /\ pc' = "dispatch"
               /\ UNCHANGED <<result, error>>
          ELSE /\ pc' = "dispatch"
               /\ result' = FALSE
               /\ error' = "RuntimeError"
               /\ UNCHANGED total_duration
    /\ UNCHANGED <<libVars, fed, waited, cleanup_raised, settingsVars, guiVars, procVars, stderr, pass_number, buffer,
                   cwd_files, sink, monitor_error>>

\* video_info = self.get_video_info(input_path); get_video_info turns
\* every failure of the probe into RuntimeError
GetVideoInfo ==
    /\ pc = "probe"
    /\ probe_calls' = probe_calls + 1
    /\ \E ok \in BOOLEAN, d \in Durations :
          IF ok
          THEN /\ total_duration' = d
               /\ pc' = "dispatch"
               /\ UNCHANGED <<result, error>>
          ELSE /\ ReturnFalse("RuntimeError")
               /\ UNCHANGED total_duration
    /\ UNCHANGED <<libVars, fed, waited, cleanup_raised, settingsVars, guiVars, procVars, stderr, pass_number, buffer,
                   cwd_files, sink, monitor_error>>

\* if settings.two_pass: _two_pass_encode(...) else: _single_pass_encode(...)
Dispatch ==
    /\ pc = "dispatch"
    /\ pc' = IF two_pass THEN "p1_spawn" ELSE "sp_spawn"
    /\ UNCHANGED <<libVars, fed, waited, cleanup_raised, settingsVars, guiVars, procVars, stderr, total_duration,
                   probe_calls, pass_number, buffer, cwd_files, sink,
                   result, error, monitor_error>>

\* a process is started for pass p and _monitor_progress is entered, or
\* starting it raises and the encode method returns False
SpawnPass(p) ==
    /\ \E ok \in BOOLEAN :
          IF ok
          THEN /\ proc' = [proc EXCEPT ![p] = "running"]
               /\ pass_number' = p
               /\ stderr' = <<>>
               /\ buffer' = <<>>
               /\ fed' = <<>>
               /\ nwritten' = 0
               /\ pc' = "mon_poll"
               /\ UNCHANGED <<result, error>>
          ELSE /\ ReturnFalse("OSError")
               /\ UNCHANGED <<proc, pass_number, stderr, buffer, nwritten,
                              fed>>
    /\ UNCHANGED <<libVars, waited, cleanup_raised, settingsVars, guiVars, returncode, total_duration,
                   probe_calls, cwd_files, sink, monitor_error>>

\* the final progress_callback(100) of an encode method, which returns
\* True unless the sink raises
Deliver100 ==
    IF has_sink
    THEN /\ sink' = Append(sink, 100)
         /\ \E raises \in BOOLEAN :
               IF raises
               THEN ReturnFalse("SinkError")
               ELSE pc' = "returned" /\ result' = TRUE /\ UNCHANGED error
    ELSE /\ pc' = "returned" /\ result' = TRUE
         /\ UNCHANGED <<sink, error>>


\* ------------------------------------------------- _single_pass_encode
\* process = output_stream.overwrite_output().run_async(...)
SinglePassSpawn ==
    /\ pc = "sp_spawn"
    /\ SpawnPass(1)

\* the success branch without its progress_callback(100)
SinglePassWaitNo100 ==
    /\ pc = "sp_wait"
    /\ proc[1] = "exited"
    /\ IF returncode[1] = <<0>>
       THEN pc' = "returned" /\ result' = TRUE /\ UNCHANGED <<sink, error>>
       ELSE ReturnFalse("none") /\ UNCHANGED sink
    /\ stderr' = <<>>
    /\ waited' = waited \cup {1}
    /\ fed' = <<>>
    /\ UNCHANGED <<libVars, cleanup_raised, settingsVars, guiVars, procVars, total_duration,
                   probe_calls, pass_number, buffer, cwd_files,
                   monitor_error>>

\* process.wait(); if process.returncode == 0: progress_callback(100),
\* return True; else: return False.  The error channel of the process is
\* not read again: what it still holds is dropped.
SinglePassWait ==
    /\ pc = "sp_wait"
    /\ proc[1] = "exited"
    /\ IF returncode[1] = <<0>>
       THEN Deliver100
       ELSE ReturnFalse("none") /\ UNCHANGED sink
    /\ stderr' = <<>>
    /\ waited' = waited \cup {1}
    /\ fed' = <<>>
    /\ UNCHANGED <<libVars, cleanup_raised, settingsVars, guiVars, procVars, total_duration,
                   probe_calls, pass_number, buffer, cwd_files,
                   monitor_error>>

\* ---------------------------------------------------- _two_pass_encode
\* process1 = subprocess.Popen(pass1_cmd, ...)
Pass1Spawn ==
    /\ pc = "p1_spawn"
    /\ SpawnPass(1)

\* the second pass started without waiting for the first process
Pass1WaitNoWait ==
    /\ pc = "p1_wait"
    /\ IF proc[1] = "exited" /\ returncode[1] # <<0>>
       THEN ReturnFalse("none")
       ELSE pc' = "p2_spawn" /\ UNCHANGED <<result, error>>
    /\ stderr' = <<>>
    /\ UNCHANGED <<libVars, fed, waited, cleanup_raised, settingsVars, guiVars, procVars, total_duration,
                   probe_calls, pass_number, buffer, cwd_files, sink,
                   monitor_error>>

\* the second pass started whatever the first process returned
Pass1WaitIgnoreCode ==
    /\ pc = "p1_wait"
    /\ proc[1] = "exited"
    /\ pc' = "p2_spawn"
    /\ UNCHANGED <<result, error>>
    /\ stderr' = <<>>
    /\ waited' = waited \cup {1}
    /\ fed' = <<>>
    /\ UNCHANGED <<libVars, cleanup_raised, settingsVars, guiVars, procVars, total_duration,
                   probe_calls, pass_number, buffer, cwd_files, sink,
                   monitor_error>>

\* process1.wait(); if process1.returncode != 0: return False
Pass1Wait ==
    /\ pc = "p1_wait"
    /\ proc[1] = "exited"
    /\ IF returncode[1] # <<0>>
       THEN ReturnFalse("none")
       ELSE pc' = "p2_spawn" /\ UNCHANGED <<result, error>>
    /\ stderr' = <<>>
    /\ waited' = waited \cup {1}
    /\ fed' = <<>>
    /\ UNCHANGED <<libVars, cleanup_raised, settingsVars, guiVars, procVars, total_duration,
                   probe_calls, pass_number, buffer, cwd_files, sink,
                   monitor_error>>

\* process2 = subprocess.Popen(pass2_cmd, ...)
Pass2Spawn ==
    /\ pc = "p2_spawn"
    /\ SpawnPass(2)

\* the cleanup entered without process2.wait()
Pass2WaitNoWait ==
    /\ pc = "p2_wait"
    /\ pc' = "cleanup"
    /\ stderr' = <<>>
    /\ UNCHANGED <<libVars, fed, waited, cleanup_raised, settingsVars, guiVars, procVars, total_duration,
                   probe_calls, pass_number, buffer, cwd_files, sink,
                   result, error, monitor_error>>

\* process2.wait()
Pass2Wait ==
    /\ pc = "p2_wait"
    /\ proc[2] = "exited"
    /\ pc' = "cleanup"
    /\ stderr' = <<>>
    /\ waited' = waited \cup {2}
    /\ fed' = <<>>
    /\ UNCHANGED <<libVars, cleanup_raised, settingsVars, guiVars, procVars, total_duration,
                   probe_calls, pass_number, buffer, cwd_files, sink,
                   result, error, monitor_error>>

\* the exception of listdir or remove raised to _two_pass_encode, whose
\* except clause returns False
CleanupPassFilesPropagates ==
    /\ pc = "cleanup"
    /\ \E ok \in BOOLEAN :
          LET logs == {f \in cwd_files : StartsWithPassPrefix(f)}
          IN  IF ok
              THEN /\ cwd_files' = cwd_files \ logs
                   /\ pc' = "p2_check"
                   /\ UNCHANGED <<cleanup_raised, result, error>>
              ELSE /\ \E removed \in SUBSET logs :
                         /\ removed # logs \/ logs = {}
                         /\ cwd_files' = cwd_files \ removed
                   /\ cleanup_raised' = TRUE
                   /\ ReturnFalse("OSError")
    /\ UNCHANGED <<libVars, fed, waited, settingsVars, guiVars, procVars, stderr,
                   total_duration, probe_calls, pass_number, buffer, sink,
                   monitor_error>>

\* the sweep that removes nothing
CleanupPassFilesKeepsLog ==
    /\ pc = "cleanup"
    /\ \E ok \in BOOLEAN : cleanup_raised' = ~ok
    /\ cwd_files' = cwd_files
    /\ pc' = "p2_check"
    /\ UNCHANGED <<libVars, fed, waited, settingsVars, guiVars, procVars, stderr,
                   total_duration, probe_calls, pass_number, buffer, sink,
                   result, error, monitor_error>>

\* self._cleanup_pass_files(): every file of "." whose name starts with
\* ffmpeg2pass is removed; when listdir or a remove raises, the files
\* removed so far stay removed and the exception is logged, not raised
CleanupPassFiles ==
    /\ pc = "cleanup"
    /\ \E ok \in BOOLEAN :
          LET logs == {f \in cwd_files : StartsWithPassPrefix(f)}
          IN  IF ok
              THEN /\ cwd_files' = cwd_files \ logs
                   /\ cleanup_raised' = FALSE
              ELSE /\ \E removed \in SUBSET logs :
                         /\ removed # logs \/ logs = {}
                         /\ cwd_files' = cwd_files \ removed
                   /\ cleanup_raised' = TRUE
    /\ pc' = "p2_check"
    /\ UNCHANGED <<libVars, fed, waited, settingsVars, guiVars, procVars, stderr,
                   total_duration, probe_calls, pass_number, buffer, sink,
                   result, error, monitor_error>>

\* the final test with the return code of pass 2 ignored
Pass2CheckIgnoresCode ==
    /\ pc = "p2_check"
    /\ Deliver100
    /\ UNCHANGED <<libVars, fed, waited, cleanup_raised, settingsVars, guiVars, procVars, stderr, total_duration,
                   probe_calls, pass_number, buffer, cwd_files,
                   monitor_error>>

\* if process2.returncode == 0: progress_callback(100), return True;
\* else: return False
Pass2Check ==
    /\ pc = "p2_check"
    /\ IF returncode[2] = <<0>>
       THEN Deliver100
       ELSE ReturnFalse("none") /\ UNCHANGED sink
    /\ UNCHANGED <<libVars, fed, waited, cleanup_raised, settingsVars, guiVars, procVars, stderr, total_duration,
                   probe_calls, pass_number, buffer, cwd_files,
                   monitor_error>>

\* --------------------------------------------------- _monitor_progress
\* where the encode method continues after _monitor_progress
AfterMonitor ==
    IF two_pass
    THEN IF pass_number = 1 THEN "p1_wait" ELSE "p2_wait"
    ELSE "sp_wait"

\* the loop going on to the read whatever process.poll() returns
MonitorPollNoRecheck ==
    /\ pc = "mon_poll"
    /\ pc' = "mon_read"
    /\ fed' = <<>>
    /\ UNCHANGED <<sink, buffer, monitor_error>>
    /\ UNCHANGED <<libVars, waited, cleanup_raised, settingsVars, guiVars, procVars, stderr, total_duration,
                   probe_calls, pass_number, cwd_files, result, error>>

\* the loop left on process.poll() without the buffer that is left going
\* through _parse_ffmpeg_output
MonitorPollNoDrain ==
    /\ pc = "mon_poll"
    /\ IF proc[pass_number] = "exited"
       THEN /\ fed' = <<>>
            /\ buffer' = <<>>
            /\ pc' = AfterMonitor
            /\ UNCHANGED <<sink, monitor_error>>
       ELSE /\ pc' = "mon_read"
            /\ fed' = <<>>
            /\ UNCHANGED <<sink, buffer, monitor_error>>
    /\ UNCHANGED <<libVars, waited, cleanup_raised, settingsVars, guiVars, procVars, stderr, total_duration,
                   probe_calls, pass_number, cwd_files, result, error>>

\* top of the loop: if process.poll() is not None, the buffer that is left
\* goes through _parse_ffmpeg_output and the loop ends; a sink that raises
\* there ends _monitor_progress in its except clause
MonitorPoll ==
    /\ pc = "mon_poll"
    /\ IF proc[pass_number] = "exited"
       THEN /\ sink' = sink \o parse_ffmpeg_output(buffer, total_duration,
                                   has_sink, two_pass, pass_number)
            /\ fed' = IF buffer # <<>> THEN <<buffer>> ELSE <<>>
            /\ buffer' = <<>>
            /\ pc' = AfterMonitor
            /\ \E raises \in BOOLEAN :
                  monitor_error' =
                      IF raises /\ sink' # sink
                      THEN monitor_error \cup {pass_number}
                      ELSE monitor_error
       ELSE /\ pc' = "mon_read"
            /\ fed' = <<>>
            /\ UNCHANGED <<sink, buffer, monitor_error>>
    /\ UNCHANGED <<libVars, waited, cleanup_raised, settingsVars, guiVars, procVars, stderr, total_duration,
                   probe_calls, pass_number, cwd_files, result, error>>

\* rest of the loop body: select with a 0.1 s timeout, read what the
\* channel holds, then the extraction loop, each stripped non-empty line
\* going through _parse_ffmpeg_output (an exception of the sink is caught
\* per line)
MonitorRead ==
    /\ pc = "mon_read"
    /\ LET ex == ExtractLines(buffer \o stderr)
       IN  /\ buffer' = ex.rest
           /\ fed' = FedUnits(ex.lines)
           /\ sink' = sink \o DeliverLines(ex.lines, total_duration,
                                  has_sink, two_pass, pass_number)
    /\ stderr' = <<>>
    /\ pc' = "mon_poll"
    /\ UNCHANGED <<libVars, waited, cleanup_raised, settingsVars, guiVars, proc, returncode, nwritten,
                   total_duration, probe_calls, pass_number, cwd_files,
                   result, error, monitor_error>>

\* except Exception: an exception raised by the loop body outside the
\* per-line try (select on a descriptor it cannot handle) ends
\* _monitor_progress while the process may still be running
MonitorError ==
    /\ pc = "mon_read"
    /\ monitor_error' = monitor_error \cup {pass_number}
    /\ buffer' = <<>>
    /\ fed' = <<>>
    /\ pc' = AfterMonitor
    /\ UNCHANGED <<libVars, waited, cleanup_raised, settingsVars, guiVars, procVars, stderr, total_duration,
                   probe_calls, pass_number, cwd_files, sink, result,
                   error>>

\* ------------------------------------------- the engine (child process)
EngineRunning == proc[pass_number] = "running"

\* the engine writes one progress line with timestamp t, ended by d
EngineWriteLine ==
    /\ EngineRunning
    /\ nwritten < MaxLines
    /\ \E t \in Times, d \in Delims :
          stderr' = stderr \o <<TimeTok(t), d>>
    /\ nwritten' = nwritten + 1
    /\ UNCHANGED <<libVars, fed, waited, cleanup_raised, settingsVars, guiVars, proc, returncode, pc,
                   total_duration, probe_calls, pass_number, buffer,
                   cwd_files, sink, result, error, monitor_error>>

\* the first pass of a two-pass job writes its pass log in "."
EngineWriteLog ==
    /\ EngineRunning
    /\ two_pass /\ pass_number = 1
    /\ PassLog \notin cwd_files
    /\ cwd_files' = cwd_files \cup {PassLog}
    /\ UNCHANGED <<libVars, fed, waited, cleanup_raised, settingsVars, guiVars, procVars, stderr, pc, total_duration,
                   probe_calls, pass_number, buffer, sink, result, error,
                   monitor_error>>

\* the engine exits with a code, possibly leaving a last progress line
\* without delimiter; a pass of a two-pass job exits zero only when the
\* pass log is there (written by pass 1, read by pass 2)
EngineExit ==
    /\ EngineRunning
    /\ \E code \in ExitCodes, tail \in {<<>>} \cup {<<TimeTok(t)>> : t \in Times} :
          /\ (two_pass /\ code = 0) => PassLog \in cwd_files
          /\ returncode' = [returncode EXCEPT ![pass_number] = <<code>>]
          /\ stderr' = stderr \o tail
    /\ proc' = [proc EXCEPT ![pass_number] = "exited"]
    /\ UNCHANGED <<libVars, fed, waited, cleanup_raised, settingsVars, guiVars, nwritten, pc, total_duration,
                   probe_calls, pass_number, buffer, cwd_files, sink,
                   result, error, monitor_error>>

\* ------------------------------------------------------- specification
Next ==
    \/ ValidateInput
    \/ CheckOutputExists
    \/ MakeOutputDir
    \/ GetVideoInfo
    \/ Dispatch
    \/ SinglePassSpawn
    \/ SinglePassWait
    \/ Pass1Spawn
    \/ Pass1Wait
    \/ Pass2Spawn
    \/ Pass2Wait
    \/ CleanupPassFiles
    \/ Pass2Check
    \/ MonitorPoll
    \/ MonitorRead
    \/ MonitorError
    \/ EngineWriteLine
    \/ EngineWriteLog
    \/ EngineExit

Spec == Init /\ [][Next]_vars

\* --------------------------------------------------------- scheduling
\* the steps of the thread that called compress_video.  A wait step is
\* enabled only once its process has exited, so the thread takes each of
\* these steps once it can.
RunnerStep ==
    \/ ValidateInput
    \/ CheckOutputExists
    \/ MakeOutputDir
    \/ Dispatch
    \/ SinglePassSpawn
    \/ SinglePassWait
    \/ Pass1Spawn
    \/ Pass1Wait
    \/ Pass2Spawn
    \/ Pass2Wait
    \/ CleanupPassFiles
    \/ Pass2Check
    \/ MonitorPoll
    \/ MonitorError
    \/ MonitorRead

RunnerFairness == WF_vars(RunnerStep)

\* an encode process ends by itself: its input is finite
EngineFairness == WF_vars(EngineExit)

\* compress_video on a thread that keeps running, with encode processes
\* that end.  GetVideoInfo is the return of ffmpeg.probe(input_path), which
\* waits for the inspection process with no timeout: nothing in the code
\* makes that step happen, so no fairness is stated for it.
SpecLive == Init /\ [][Next]_vars /\ RunnerFairness /\ EngineFairness


\* ------------------------------------------- the GUI batch worker
\* start_compression opens the progress window and starts the worker
InitGUI ==
    /\ pc = "w_loop"
    /\ caller = "gui"
    /\ two_pass = FALSE
    /\ overwrite \in BOOLEAN
    /\ has_sink = TRUE
    /\ input_exists = FALSE
    /\ output_exists = FALSE
    /\ total_duration = 0
    /\ probe_calls = 0
    /\ pass_number = 1
    /\ proc = NoProc
    /\ returncode = NoCode
    /\ stderr = <<>>
    /\ buffer = <<>>
    /\ nwritten = 0
    /\ cwd_files = {OtherFile}
    /\ sink = <<>>
    /\ result = FALSE
    /\ error = "none"
    /\ monitor_error = {}
    /\ cleanup_raised = FALSE
    /\ fed = <<>>
    /\ waited = {}
    /\ LibIdle
    /\ is_cancelled = FALSE
    /\ cancel_in_job = FALSE
    /\ total_files \in 1..MaxFiles
    /\ file_index = 0
    /\ successful = 0
    /\ finished = "no"

\* for i, input_file in enumerate(self.input_files):
\*     if self.progress_window.is_cancelled: break
\*     ... success = self.compressor.compress_video(...)
WorkerLoop ==
    /\ pc = "w_loop"
    /\ IF file_index < total_files /\ ~is_cancelled
       THEN /\ pc' = "validate"
            /\ input_exists' \in BOOLEAN
            /\ output_exists' \in BOOLEAN
            /\ cancel_in_job' = FALSE
            /\ JobReset
       ELSE /\ pc' = "w_after"
            /\ UNCHANGED <<input_exists, output_exists, cancel_in_job,
                           total_duration, probe_calls, pass_number, proc,
                           returncode, stderr, buffer, nwritten, sink,
                           result, error, monitor_error, cleanup_raised,
                           fed, waited>>
    /\ UNCHANGED <<libVars, caller, two_pass, overwrite, has_sink,
                   cwd_files, is_cancelled, total_files, file_index,
                   successful, finished>>

\* if success: successful += 1 ...; the loop goes on to the next file
WorkerResult ==
    /\ caller = "gui"
    /\ pc = "returned"
    /\ successful' = IF result THEN successful + 1 ELSE successful
    /\ file_index' = file_index + 1
    /\ pc' = "w_loop"
    /\ UNCHANGED <<libVars, fed, waited, cleanup_raised, settingsVars, procVars, stderr, total_duration,
                   probe_calls, pass_number, buffer, cwd_files, sink,
                   result, error, monitor_error, is_cancelled,
                   cancel_in_job, total_files, finished>>

\* after the loop: if not self.progress_window.is_cancelled:
\*     self.progress_window.compression_finished(successful > 0)
WorkerFinish ==
    /\ pc = "w_after"
    /\ finished' = IF is_cancelled THEN finished
                   ELSE IF successful > 0 THEN "success" ELSE "failure"
    /\ pc' = "w_done"
    /\ UNCHANGED <<libVars, fed, waited, cleanup_raised, settingsVars, procVars, stderr, total_duration,
                   probe_calls, pass_number, buffer, cwd_files, sink,
                   result, error, monitor_error, is_cancelled,
                   cancel_in_job, total_files, file_index, successful>>

PassRunning == \E p \in Passes : proc[p] = "running"

\* ProgressWindow.cancel_compression, the command of the Cancel button
\* (enabled until compression_finished disables it)
CancelCompression ==
    /\ caller = "gui"
    /\ finished = "no"
    /\ is_cancelled' = TRUE
    /\ cancel_in_job' = (cancel_in_job \/ PassRunning)
    /\ UNCHANGED <<libVars, fed, waited, cleanup_raised, settingsVars, procVars, stderr, pc, total_duration,
                   probe_calls, pass_number, buffer, cwd_files, sink,
                   result, error, monitor_error, total_files, file_index,
                   successful, finished>>

NextGUI ==
    \/ WorkerLoop
    \/ WorkerResult
    \/ WorkerFinish
    \/ CancelCompression
    \/ ValidateInput
    \/ CheckOutputExists
    \/ MakeOutputDir
    \/ GetVideoInfo
    \/ Dispatch
    \/ SinglePassSpawn
    \/ SinglePassWait
    \/ MonitorPoll
    \/ MonitorRead
    \/ MonitorError
    \/ EngineWriteLine
    \/ EngineExit

SpecGUI == InitGUI /\ [][NextGUI]_vars

\* ------------------------------------------- construction, then one job
\* the job arguments of a caller that is about to construct the compressor
InitConstruct ==
    /\ pc = "construct"
    /\ JobEntry
    /\ instance = "none"
    /\ verify_calls = 0
    /\ verify_outcome = "none"
    /\ construct_error = "none"
    /\ ConcIdle /\ RecentIdle /\ ConfigIdle /\ BuildIdle

\* _verify_ffmpeg with the returncode test forgotten
VerifyFfmpegIgnoresCode ==
    /\ pc = "construct"
    /\ verify_calls' = verify_calls + 1
    /\ \E outcome \in {"zero", "nonzero", "timeout", "missing", "denied"} :
          /\ verify_outcome' = outcome
          /\ IF outcome \in {"zero", "nonzero"}
             THEN /\ instance' = "verified"
                  /\ pc' = "validate"
                  /\ UNCHANGED construct_error
             ELSE /\ instance' = "failed"
                  /\ pc' = "construct_failed"
                  /\ construct_error' =
                        IF outcome = "denied" THEN "PermissionError"
                        ELSE "RuntimeError"
    /\ UNCHANGED <<concVars, recentVars, configVars, buildVars,
                   fed, waited, cleanup_raised, settingsVars, guiVars, procVars, stderr,
                   total_duration, probe_calls, pass_number, buffer,
                   cwd_files, sink, result, error, monitor_error>>

\* VideoCompressor.__init__: self._verify_ffmpeg() runs
\* [ffmpeg_path, "-version"] once.  A non-zero returncode, TimeoutExpired
\* and FileNotFoundError end in RuntimeError; any other exception of the
\* run (the executable may not be executed: PermissionError) propagates
\* as it is.  Only when __init__ returns has the caller an instance to
\* call compress_video on.
VerifyFfmpeg ==
    /\ pc = "construct"
    /\ verify_calls' = verify_calls + 1
    /\ \E outcome \in {"zero", "nonzero", "timeout", "missing", "denied"} :
          /\ verify_outcome' = outcome
          /\ IF outcome = "zero"
             THEN /\ instance' = "verified"
                  /\ pc' = "validate"
                  /\ UNCHANGED construct_error
             ELSE /\ instance' = "failed"
                  /\ pc' = "construct_failed"
                  /\ construct_error' =
                        IF outcome = "denied" THEN "PermissionError"
                        ELSE "RuntimeError"
    /\ UNCHANGED <<concVars, recentVars, configVars, buildVars,
                   fed, waited, cleanup_raised, settingsVars, guiVars, procVars, stderr,
                   total_duration, probe_calls, pass_number, buffer,
                   cwd_files, sink, result, error, monitor_error>>

NextConstruct ==
    \/ VerifyFfmpeg
    \/ Next

SpecConstruct == InitConstruct /\ [][NextConstruct]_vars

\* ------------------------------ one iteration of the extraction loop
\* what a read of the error channel can return: progress timestamps and
\* delimiters in any mix
Tokens == {TimeTok(t) : t \in Times} \cup Delims
RECURSIVE SeqsUpTo(_, _)
SeqsUpTo(S, n) ==
    IF n = 0 THEN {<<>>}
    ELSE LET shorter == SeqsUpTo(S, n - 1)
         IN  shorter \cup {Append(q, x) : q \in shorter, x \in S}
Chunks == SeqsUpTo(Tokens, MaxChunk)

\* _monitor_progress inside its loop, about to read: the process of a
\* single-pass job runs, buffer holds the partial line of earlier reads
\* (no delimiter), the channel holds the next chunk
InitExtract ==
    /\ pc = "mon_read"
    /\ caller = "api"
    /\ two_pass = FALSE
    /\ pass_number = 1
    /\ total_duration \in Durations
    /\ has_sink \in BOOLEAN
    /\ buffer \in {<<>>} \cup {<<TimeTok(t)>> : t \in Times}
    /\ stderr \in Chunks
    /\ overwrite = FALSE
    /\ input_exists = TRUE
    /\ output_exists = FALSE
    /\ probe_calls = 1
    /\ proc = [NoProc EXCEPT ![1] = "running"]
    /\ returncode = NoCode
    /\ nwritten = 0
    /\ cwd_files = {OtherFile}
    /\ sink = <<>>
    /\ result = FALSE
    /\ error = "none"
    /\ monitor_error = {}
    /\ cleanup_raised = FALSE
    /\ fed = <<>>
    /\ waited = {}
    /\ is_cancelled = FALSE
    /\ cancel_in_job = FALSE
    /\ total_files = 1
    /\ file_index = 0
    /\ successful = 0
    /\ finished = "no"
    /\ LibIdle

NextExtract ==
    \/ MonitorRead

SpecExtract == InitExtract /\ [][NextExtract]_vars

\* ------------------------------------------- _parse_ffmpeg_output alone
\* diagnostic lines: up to two progress timestamps
ParseLines ==
    {<<>>} \cup {<<TimeTok(t)>> : t \in Times}
           \cup {<<TimeTok(t), TimeTok(u)>> : t \in Times, u \in Times}

\* one call _parse_ffmpeg_output(line, progress, pass_number): the line is
\* held in buffer, progress is (total_duration, has_sink, two_pass)
InitParse ==
    /\ pc = "parse"
    /\ caller = "api"
    /\ two_pass \in BOOLEAN
    /\ pass_number \in (IF two_pass THEN Passes ELSE {1})
    /\ total_duration \in Durations
    /\ has_sink \in BOOLEAN
    /\ buffer \in ParseLines
    /\ overwrite = FALSE
    /\ input_exists = TRUE
    /\ output_exists = FALSE
    /\ probe_calls = 1
    /\ proc = NoProc
    /\ returncode = NoCode
    /\ stderr = <<>>
    /\ nwritten = 0
    /\ cwd_files = {OtherFile}
    /\ sink = <<>>
    /\ result = FALSE
    /\ error = "none"
    /\ monitor_error = {}
    /\ cleanup_raised = FALSE
    /\ fed = <<>>
    /\ waited = {}
    /\ is_cancelled = FALSE
    /\ cancel_in_job = FALSE
    /\ total_files = 1
    /\ file_index = 0
    /\ successful = 0
    /\ finished = "no"
    /\ LibIdle

ParseLine ==
    /\ pc = "parse"
    /\ sink' = parse_ffmpeg_output(buffer, total_duration, has_sink,
                                   two_pass, pass_number)
    /\ pc' = "parsed"
    /\ UNCHANGED <<libVars, fed, waited, cleanup_raised, settingsVars, guiVars, procVars,
                   stderr, total_duration, probe_calls, pass_number, buffer,
                   cwd_files, result, error, monitor_error>>

NextParse ==
    \/ ParseLine

SpecParse == InitParse /\ [][NextParse]_vars

\* ------------------------------------------- two concurrent two-pass jobs
\* Two callers, each with its own compressor and its own current working
\* directory job_cwd[j], run _two_pass_encode at the same time.  Neither
\* command names a pass-log file, so each engine writes and reads the pass
\* log of its caller's working directory, and _cleanup_pass_files lists
\* ".".  _monitor_progress is folded into the wait that follows it.

\* the state of one compress_video call, which these jobs do not touch
jobVars == <<fed, waited, cleanup_raised, pc, settingsVars, guiVars, procVars, stderr,
             total_duration, probe_calls, pass_number, buffer, cwd_files,
             sink, result, error, monitor_error>>

\* no compress_video call of the single-job model is in progress
JobIdle ==
    /\ pc = "idle"
    /\ JobEntry
    /\ ~two_pass /\ ~overwrite /\ ~has_sink
    /\ input_exists /\ ~output_exists

InitConc ==
    /\ JobIdle
    /\ CtorDone /\ RecentIdle /\ ConfigIdle /\ BuildIdle
    /\ job_cwd \in [Jobs -> Dirs]
    /\ job_pc = [j \in Jobs |-> "p1_spawn"]
    /\ job_proc = [j \in Jobs |-> NoProc]
    /\ job_returncode = [j \in Jobs |-> NoCode]
    /\ job_result = [j \in Jobs |-> FALSE]
    /\ job_cleanup_raised = [j \in Jobs |-> FALSE]
    /\ dir_passlog = [d \in Dirs |-> 0]
    /\ job_log_read = [j \in Jobs |-> <<>>]
    /\ swept_foreign = {}

\* return False of job j
JobReturnFalse(j) ==
    /\ job_pc' = [job_pc EXCEPT ![j] = "returned"]
    /\ job_result' = [job_result EXCEPT ![j] = FALSE]

\* process<p> = subprocess.Popen(pass<p>_cmd, ...) of job j; when Popen
\* raises the except clause returns False
JobSpawnPass(j, p) ==
    /\ \E ok \in BOOLEAN :
          IF ok
          THEN /\ job_proc' = [job_proc EXCEPT ![j][p] = "running"]
               /\ job_pc' = [job_pc EXCEPT ![j] =
                                IF p = 1 THEN "p1_wait" ELSE "p2_wait"]
               /\ UNCHANGED job_result
          ELSE /\ JobReturnFalse(j)
               /\ UNCHANGED job_proc
    /\ UNCHANGED <<job_cwd, job_returncode, job_cleanup_raised, dir_passlog,
                   job_log_read, swept_foreign>>
    /\ UNCHANGED <<jobVars, ctorVars, recentVars, configVars, buildVars>>

JobPass1Spawn(j) ==
    /\ job_pc[j] = "p1_spawn"
    /\ JobSpawnPass(j, 1)

\* _monitor_progress(process1), process1.wait();
\* if process1.returncode != 0: return False
JobPass1Wait(j) ==
    /\ job_pc[j] = "p1_wait"
    /\ job_proc[j][1] = "exited"
    /\ IF job_returncode[j][1] # <<0>>
       THEN JobReturnFalse(j)
       ELSE /\ job_pc' = [job_pc EXCEPT ![j] = "p2_spawn"]
            /\ UNCHANGED job_result
    /\ UNCHANGED <<job_cwd, job_proc, job_returncode, job_cleanup_raised,
                   dir_passlog, job_log_read, swept_foreign>>
    /\ UNCHANGED <<jobVars, ctorVars, recentVars, configVars, buildVars>>

JobPass2Spawn(j) ==
    /\ job_pc[j] = "p2_spawn"
    /\ JobSpawnPass(j, 2)

\* _monitor_progress(process2), process2.wait()
JobPass2Wait(j) ==
    /\ job_pc[j] = "p2_wait"
    /\ job_proc[j][2] = "exited"
    /\ job_pc' = [job_pc EXCEPT ![j] = "cleanup"]
    /\ UNCHANGED <<job_cwd, job_proc, job_returncode, job_result,
                   job_cleanup_raised, dir_passlog, job_log_read,
                   swept_foreign>>
    /\ UNCHANGED <<jobVars, ctorVars, recentVars, configVars, buildVars>>

\* a sweep of every directory instead of "."
JobCleanupAllDirs(j) ==
    /\ job_pc[j] = "cleanup"
    /\ \E ok \in BOOLEAN :
          IF ok
          THEN /\ dir_passlog' = [d \in Dirs |-> 0]
               /\ swept_foreign' =
                     IF \E d \in Dirs : dir_passlog[d] \notin {0, j}
                     THEN swept_foreign \cup {j}
                     ELSE swept_foreign
               /\ job_cleanup_raised' = [job_cleanup_raised EXCEPT ![j] = FALSE]
          ELSE /\ job_cleanup_raised' = [job_cleanup_raised EXCEPT ![j] = TRUE]
               /\ UNCHANGED <<dir_passlog, swept_foreign>>
    /\ job_pc' = [job_pc EXCEPT ![j] = "p2_check"]
    /\ UNCHANGED <<job_cwd, job_proc, job_returncode, job_result,
                   job_log_read>>
    /\ UNCHANGED <<jobVars, ctorVars, recentVars, configVars, buildVars>>

\* a sweep that removes only the log the job itself wrote
JobCleanupOwnLog(j) ==
    /\ job_pc[j] = "cleanup"
    /\ \E ok \in BOOLEAN :
          IF ok
          THEN /\ dir_passlog' =
                     IF dir_passlog[job_cwd[j]] = j
                     THEN [dir_passlog EXCEPT ![job_cwd[j]] = 0]
                     ELSE dir_passlog
               /\ job_cleanup_raised' = [job_cleanup_raised EXCEPT ![j] = FALSE]
          ELSE /\ job_cleanup_raised' = [job_cleanup_raised EXCEPT ![j] = TRUE]
               /\ UNCHANGED dir_passlog
    /\ job_pc' = [job_pc EXCEPT ![j] = "p2_check"]
    /\ UNCHANGED <<job_cwd, job_proc, job_returncode, job_result,
                   job_log_read, swept_foreign>>
    /\ UNCHANGED <<jobVars, ctorVars, recentVars, configVars, buildVars>>

\* self._cleanup_pass_files() of job j: the pass log of "." is removed
\* whoever wrote it; when listdir or remove raises it stays
JobCleanup(j) ==
    /\ job_pc[j] = "cleanup"
    /\ \E ok \in BOOLEAN :
          IF ok
          THEN /\ dir_passlog' = [dir_passlog EXCEPT ![job_cwd[j]] = 0]
               /\ swept_foreign' =
                     IF dir_passlog[job_cwd[j]] \notin {0, j}
                     THEN swept_foreign \cup {j}
                     ELSE swept_foreign
               /\ job_cleanup_raised' = [job_cleanup_raised EXCEPT ![j] = FALSE]
          ELSE /\ job_cleanup_raised' = [job_cleanup_raised EXCEPT ![j] = TRUE]
               /\ UNCHANGED <<dir_passlog, swept_foreign>>
    /\ job_pc' = [job_pc EXCEPT ![j] = "p2_check"]
    /\ UNCHANGED <<job_cwd, job_proc, job_returncode, job_result,
                   job_log_read>>
    /\ UNCHANGED <<jobVars, ctorVars, recentVars, configVars, buildVars>>

\* if process2.returncode == 0: return True; else: return False
JobPass2Check(j) ==
    /\ job_pc[j] = "p2_check"
    /\ job_pc' = [job_pc EXCEPT ![j] = "returned"]
    /\ job_result' = [job_result EXCEPT ![j] = (job_returncode[j][2] = <<0>>)]
    /\ UNCHANGED <<job_cwd, job_proc, job_returncode, job_cleanup_raised,
                   dir_passlog, job_log_read, swept_foreign>>
    /\ UNCHANGED <<jobVars, ctorVars, recentVars, configVars, buildVars>>

\* the engine of pass 1 of job j writes the pass log of its directory
JobEngineWriteLog(j) ==
    /\ job_proc[j][1] = "running"
    /\ dir_passlog' = [dir_passlog EXCEPT ![job_cwd[j]] = j]
    /\ UNCHANGED <<job_cwd, job_pc, job_proc, job_returncode, job_result,
                   job_cleanup_raised, job_log_read, swept_foreign>>
    /\ UNCHANGED <<jobVars, ctorVars, recentVars, configVars, buildVars>>

\* the engine of pass 2 of job j opens the pass log of its directory
JobEngineReadLog(j) ==
    /\ job_proc[j][2] = "running"
    /\ job_log_read[j] = <<>>
    /\ job_log_read' = [job_log_read EXCEPT ![j] = <<dir_passlog[job_cwd[j]]>>]
    /\ UNCHANGED <<job_cwd, job_pc, job_proc, job_returncode, job_result,
                   job_cleanup_raised, dir_passlog, swept_foreign>>
    /\ UNCHANGED <<jobVars, ctorVars, recentVars, configVars, buildVars>>

\* the running engine process of job j exits
JobEngineExit(j) ==
    /\ \E p \in Passes, code \in ExitCodes :
          /\ job_proc[j][p] = "running"
          /\ job_proc' = [job_proc EXCEPT ![j][p] = "exited"]
          /\ job_returncode' = [job_returncode EXCEPT ![j][p] = <<code>>]
    /\ UNCHANGED <<job_cwd, job_pc, job_result, job_cleanup_raised,
                   dir_passlog, job_log_read, swept_foreign>>
    /\ UNCHANGED <<jobVars, ctorVars, recentVars, configVars, buildVars>>

NextConc ==
    \E j \in Jobs :
        \/ JobPass1Spawn(j)
        \/ JobPass1Wait(j)
        \/ JobPass2Spawn(j)
        \/ JobPass2Wait(j)
        \/ JobCleanup(j)
        \/ JobPass2Check(j)
        \/ JobEngineWriteLog(j)
        \/ JobEngineReadLog(j)
        \/ JobEngineExit(j)

SpecConc == InitConc /\ [][NextConc]_vars

\* ------------------------------------------- the recent-directory lists
Elems(list) == {list[i] : i \in 1..Len(list)}

\* list.remove(x): the first occurrence of x is removed
RECURSIVE ListRemove(_, _)
ListRemove(list, x) ==
    IF list = <<>> THEN <<>>
    ELSE IF Head(list) = x THEN Tail(list)
    ELSE <<Head(list)>> \o ListRemove(Tail(list), x)

\* add_recent_directory with the removal of the old entry forgotten
add_recent_directory_no_remove(list, directory) ==
    LET inserted == <<directory>> \o list
    IN  IF Len(inserted) > RecentLimit
        THEN SubSeq(inserted, 1, RecentLimit)
        ELSE inserted

\* add_recent_directory: the new value of the list
add_recent_directory(list, directory) ==
    LET removed == IF directory \in Elems(list)
                   THEN ListRemove(list, directory)
                   ELSE list
        inserted == <<directory>> \o removed
    IN  IF Len(inserted) > RecentLimit
        THEN SubSeq(inserted, 1, RecentLimit)
        ELSE inserted

\* The directory arguments tried on a list: every entry of it, and a
\* directory that is not in it (directories are interchangeable: the
\* smallest such one).
AddCandidates(list) ==
    {CHOOSE d \in Directories \ Elems(list) :
         \A e \in Directories \ Elems(list) : d <= e}
    \cup Elems(list)

\* a ConfigManager with the default settings; every call of the run is
\* for one directory type
InitRecent ==
    /\ JobIdle
    /\ CtorDone /\ ConcIdle /\ ConfigIdle /\ BuildIdle
    /\ directory_type \in DirectoryTypes
    /\ recent = [ty \in DirectoryTypes |-> <<>>]
    /\ last_directory = 0
    /\ nadds = 0

\* self.add_recent_directory(directory, directory_type)
AddRecentDirectory ==
    /\ nadds < MaxAdds
    /\ \E directory \in AddCandidates(recent[directory_type]) :
          /\ recent' = [recent EXCEPT ![directory_type] =
                           add_recent_directory(@, directory)]
          /\ last_directory' = directory
    /\ nadds' = nadds + 1
    /\ UNCHANGED directory_type
    /\ UNCHANGED <<jobVars, ctorVars, concVars, configVars, buildVars>>

NextRecent ==
    \/ AddRecentDirectory

SpecRecent == InitRecent /\ [][NextRecent]_vars

\* ------------------------------------------- ConfigManager.get and set
\* key strings: simple keys, nested keys of two and three levels, keys
\* through the scalar default "b" and the nested default "c", and a key
\* with an empty last name
Keys ==
    { <<"a">>, <<"b">>, <<"c">>,
      <<"a", ".", "b">>, <<"b", ".", "a">>, <<"c", ".", "a">>,
      <<"c", ".", "b">>,
      <<"a", ".", "b", ".", "c">>, <<"c", ".", "a", ".", "b">>,
      <<"a", ".">> }

\* values given to set, and the default given to get
Values == {Leaf(1), Leaf(2)}
Defaults == {Leaf(-1)}

\* key.split("."): the names between the dots
RECURSIVE Split(_)
Split(key) ==
    IF \A i \in 1..Len(key) : key[i] # "."
    THEN <<key>>
    ELSE LET k == CHOOSE i \in 1..Len(key) :
                      /\ key[i] = "."
                      /\ \A m \in 1..(i - 1) : key[m] # "."
         IN  <<SubSeq(key, 1, k - 1)>> \o Split(SubSeq(key, k + 1, Len(key)))

\* for k in keys: value = value[k]; KeyError and TypeError give default
RECURSIVE GetNode(_, _, _)
GetNode(node, names, default) ==
    IF names = <<>> THEN node
    ELSE IF node.kind # "dict" THEN default
    ELSE IF Head(names) \notin DOMAIN node.items THEN default
    ELSE GetNode(node.items[Head(names)], Tail(names), default)

\* target[k] = v
Put(items, k, v) ==
    [n \in (DOMAIN items) \cup {k} |-> IF n = k THEN v ELSE items[n]]

\* The navigation and the assignment of set on the tree below target.
\* ok is FALSE when the call raises TypeError: "k not in target",
\* "target[k] = {}" and "target[keys[-1]] = value" all raise it on a
\* target that is not a dict.  A level is only created below a dict, and
\* below a created level nothing raises, so a call that raises has
\* changed nothing.
RECURSIVE SetNode(_, _, _)
SetNode(node, names, value) ==
    IF node.kind # "dict" THEN [ok |-> FALSE, node |-> node]
    ELSE IF Len(names) = 1
    THEN [ok |-> TRUE, node |-> Dict(Put(node.items, names[1], value))]
    ELSE LET k == Head(names)
             child == IF k \in DOMAIN node.items THEN node.items[k]
                      ELSE Dict(EmptyDict)
             r == SetNode(child, Tail(names), value)
         IN  IF r.ok
             THEN [ok |-> TRUE, node |-> Dict(Put(node.items, k, r.node))]
             ELSE [ok |-> FALSE, node |-> node]

\* a ConfigManager whose load found no configuration file
InitConfig ==
    /\ JobIdle
    /\ CtorDone /\ ConcIdle /\ RecentIdle /\ BuildIdle
    /\ settings = DefaultSettings
    /\ last_key = <<>>
    /\ last_value = Leaf(0)
    /\ set_raised = FALSE
    /\ set_keys = {}
    /\ nsets = 0
    /\ last_get = NoGet

\* self.set(key, value)
SetCall ==
    /\ nsets < MaxSets
    /\ \E key \in Keys, value \in Values :
          LET r == SetNode(settings, Split(key), value)
          IN  /\ settings' = r.node
              /\ set_raised' = ~r.ok
              /\ set_keys' = IF r.ok THEN set_keys \cup {key} ELSE set_keys
              /\ last_key' = key
              /\ last_value' = value
    /\ nsets' = nsets + 1
    /\ last_get' = NoGet
    /\ UNCHANGED <<jobVars, ctorVars, concVars, recentVars, buildVars>>

\* self.get(key, default)
GetCall ==
    /\ ~last_get.called
    /\ \E key \in Keys, default \in Defaults :
          last_get' = [called |-> TRUE, key |-> key, default |-> default,
                       value |-> GetNode(settings, Split(key), default)]
    /\ UNCHANGED <<settings, last_key, last_value, set_raised, set_keys,
                   nsets>>
    /\ UNCHANGED <<jobVars, ctorVars, concVars, recentVars, buildVars>>

NextConfig ==
    \/ SetCall
    \/ GetCall

SpecConfig == InitConfig /\ [][NextConfig]_vars

\* ------------------------------------------- the commands of a job
\* settings.width / settings.height (0: None), settings.scale_filter and
\* settings.max_bitrate ("": None)
Widths == {0, 640, 1280}
Heights == {0, 360, 720}
ScaleFilters == {"", "iw/2:ih/2"}
MaxBitrates == {"", "2M"}

\* the scale filter of a command: none, scale=w:h, or scale=<string>
NoScale == [kind |-> "none", w |-> 0, h |-> 0, named |-> ""]
ScaleWH(w, h) == [kind |-> "wh", w |-> w, h |-> h, named |-> ""]
ScaleNamed(str) == [kind |-> "named", w |-> 0, h |-> 0, named |-> str]

\* A command is recorded by the arguments that differ between the
\* commands: its -pass option (0: none), its scale filter, its -maxrate
\* and -bufsize ("": none), whether it encodes audio, and whether it
\* writes the output file or the null muxer.
\* the single-pass command: the ffmpeg.output(...) stream of compress_video
single_pass_command ==
    [pass |-> 0,
     scale |-> IF width # 0 /\ height # 0 THEN ScaleWH(width, height)
               ELSE IF scale_filter # "" THEN ScaleNamed(scale_filter)
               ELSE NoScale,
     maxrate |-> max_bitrate,
     bufsize |-> max_bitrate,
     audio |-> TRUE,
     output |-> "file"]

\* _build_pass1_command
build_pass1_command ==
    [pass |-> 1, scale |-> NoScale, maxrate |-> "", bufsize |-> "",
     audio |-> FALSE, output |-> "null"]

\* _build_pass2_command
build_pass2_command ==
    [pass |-> 2, scale |-> NoScale, maxrate |-> "", bufsize |-> "",
     audio |-> TRUE, output |-> "file"]

\* the settings a caller hands to compress_video
InitBuild ==
    /\ pc = "idle"
    /\ JobEntry
    /\ ~overwrite /\ ~has_sink /\ input_exists /\ ~output_exists
    /\ CtorDone /\ ConcIdle /\ RecentIdle /\ ConfigIdle
    /\ width \in Widths
    /\ height \in Heights
    /\ scale_filter \in ScaleFilters
    /\ max_bitrate \in MaxBitrates
    /\ plan = <<>>

\* the commands compress_video runs for the job: those of pass 1 and pass
\* 2 when settings.two_pass, else the single-pass command
BuildPlan ==
    /\ plan = <<>>
    /\ plan' = IF two_pass
               THEN <<build_pass1_command, build_pass2_command>>
               ELSE <<single_pass_command>>
    /\ UNCHANGED <<width, height, scale_filter, max_bitrate>>
    /\ UNCHANGED <<jobVars, ctorVars, concVars, recentVars, configVars>>

NextBuild ==
    \/ BuildPlan

SpecBuild == InitBuild /\ [][NextBuild]_vars

\* ---------------------------------------------------------------- claims
SinkValues == {sink[i] : i \in 1..Len(sink)}
Count100 == Cardinality({i \in 1..Len(sink) : sink[i] = 100})
ExitedZero(p) == proc[p] = "exited" /\ returncode[p] = <<0>>
AllPassesExitedZero ==
    IF two_pass THEN ExitedZero(1) /\ ExitedZero(2) ELSE ExitedZero(1)
PassLogsInCwd == {f \in cwd_files : StartsWithPassPrefix(f)}

\* C1: within one job the percentages delivered to the sink never
\* decrease, whatever the order of the timestamps and across the passes.
C1_SinkNonDecreasing ==
    \A i \in 1..Len(sink) : \A j \in 1..Len(sink) :
        i <= j => sink[i] <= sink[j]

\* C2: the sink holds 100 only when every configured pass has exited with
\* code zero.
C2_No100BeforeAllPassesExitZero ==
    100 \in SinkValues => AllPassesExitedZero

C2_Witness ==
    /\ two_pass
    /\ 100 \in SinkValues
    /\ Len(sink) > 1

\* C3: a job that returned True with a sink set delivered 100 exactly once
\* and as the last value.
C3_SuccessEndsWithSingle100 ==
    (pc = "returned" /\ result /\ has_sink) =>
        /\ Count100 = 1
        /\ sink[Len(sink)] = 100

C3_Witness ==
    /\ pc = "returned" /\ result /\ has_sink
    /\ Len(sink) >= 2
    /\ sink[1] = 99

\* C4: every delivered value lies in 0..100, and until the job returns
\* (all values then come from diagnostic lines) in 0..99, also for
\* timestamps beyond the total duration.
C4_SinkRange ==
    /\ SinkValues \subseteq 0..100
    /\ pc # "returned" => SinkValues \subseteq 0..99

\* pass 1 of a two-pass job delivers 99 only for a timestamp of twice the
\* total duration or more
C4_Witness ==
    /\ two_pass /\ pass_number = 1 /\ proc[1] = "running"
    /\ 99 \in SinkValues

\* C5: once pass 1 of a two-pass job has exited non-zero, pass 2 is never
\* spawned, 100 is never delivered and the job can only return False.
C5_Pass1FailureAborts ==
    (two_pass /\ proc[1] = "exited" /\ returncode[1] # <<0>>) =>
        /\ proc[2] = "none"
        /\ 100 \notin SinkValues
        /\ pc \in {"mon_poll", "mon_read", "p1_wait", "returned"}
        /\ pc = "returned" => ~result

C5_Witness ==
    /\ two_pass /\ proc[1] = "exited" /\ returncode[1] # <<0>>
    /\ pc = "returned" /\ ~result
    /\ sink # <<>>

\* C6: after a two-pass job whose pass 1 exited non-zero has returned, no
\* pass-log artifact is left in the working directory.
C6_Pass1FailureCleansArtifacts ==
    (two_pass /\ pc = "returned" /\ proc[1] = "exited"
        /\ returncode[1] # <<0>>) => PassLogsInCwd = {}

\* C7: when the output exists and overwrite is false the job fails with no
\* probe call and no process spawned.
C7_OutputExistsBeforeProbe ==
    (output_exists /\ ~overwrite) =>
        /\ probe_calls = 0
        /\ proc = NoProc
        /\ pc \in {"validate", "check_output", "returned"}
        /\ pc = "returned" => ~result

C7_Witness ==
    /\ pc = "returned" /\ error = "FileExistsError"
    /\ output_exists /\ ~overwrite /\ input_exists

\* C8: the pass-2 process exists only after the pass-1 process has exited,
\* so the two are never alive together.
C8_PassesSequential ==
    /\ proc[2] # "none" => proc[1] = "exited"
    /\ ~(proc[1] = "running" /\ proc[2] = "running")

\* pass 2 runs after the monitoring of pass 1 ended in its except clause
C8_Witness ==
    /\ proc[2] = "running"
    /\ 1 \in monitor_error

\* C9: once cancellation has been requested while a pass is running, the
\* Runner terminates the child: it does not go on to read the child's
\* output at its next poll, and it starts no further pass.
C9_CancelTerminatesChild ==
    [][cancel_in_job =>
          /\ (pc = "mon_poll" /\ proc[pass_number] = "running")
                => pc' # "mon_read"
          /\ \A p \in Passes : proc[p] = "none" => proc'[p] = "none"]_vars

\* C10: a job during which cancellation was requested while its pass was
\* running, and which no exception ended, does not return the failure
\* outcome (False, the value a job returns whose pass exited non-zero).
C10_CancelOutcomeDistinct ==
    (pc = "returned" /\ cancel_in_job /\ error = "none") => result

C14_CleanupFailureKeepsOutcome ==
    (pc = "returned" /\ cleanup_raised) =>
        /\ error \in {"none", "SinkError"}
        /\ result <=> (returncode[2] = <<0>> /\ error = "none")
        /\ (returncode[2] = <<0>> /\ has_sink) => sink[Len(sink)] = 100

C14_Witness ==
    /\ pc = "returned" /\ cleanup_raised /\ result /\ has_sink
    /\ PassLog \in cwd_files
    /\ sink[Len(sink)] = 100

\* C15: for a line with a timestamp, a positive total duration and a sink,
\* with b = current/total*100 of the first timestamp, the sink receives
\* clamp(b/2) in pass 1 and clamp(50 + b/2) in pass 2 of a two-pass job
\* and clamp(b) in a single-pass job, the clamp being to 0..99.
C15_TwoPassRescaling ==
    (pc = "parsed" /\ has_sink /\ total_duration > 0 /\ buffer # <<>>) =>
        LET b == (buffer[1].t * 100) \div total_duration
            v == IF ~two_pass THEN b
                 ELSE IF pass_number = 1 THEN b \div 2
                 ELSE 50 + (b \div 2)
        IN  sink = <<IF v < 0 THEN 0 ELSE IF v > 99 THEN 99 ELSE v>>

C15_Witness ==
    /\ pc = "parsed" /\ two_pass /\ pass_number = 2
    /\ total_duration = 2
    /\ buffer = <<TimeTok(1)>>
    /\ sink = <<75>>

\* C16: a compress_video call that has returned, and whose sink did not
\* raise on the final value, returned True exactly when every configured
\* pass exited with code zero; every failure (precondition, probe, spawn,
\* exit code) is a returned False.
C16_TrueIffAllPassesExitZero ==
    (pc = "returned" /\ error # "SinkError") =>
        (result <=> AllPassesExitedZero)

C16_Witness ==
    /\ pc = "returned" /\ result /\ two_pass
    /\ ExitedZero(1) /\ ExitedZero(2)
    /\ error = "none"

\* C17: a job is only ever in progress on an instance whose -version run
\* exited zero, that run being the only one of the construction; a run
\* that exits non-zero, times out or finds no executable ends the
\* construction with RuntimeError and no instance.
C17_ConstructionVerifiesEngine ==
    /\ pc \notin {"construct", "construct_failed"} =>
          /\ instance = "verified"
          /\ verify_outcome = "zero"
          /\ verify_calls = 1
    /\ verify_outcome \in {"nonzero", "timeout", "missing"} =>
          /\ instance = "failed"
          /\ construct_error = "RuntimeError"
          /\ pc = "construct_failed"
    /\ instance = "verified" => verify_calls = 1

C17_Witness ==
    /\ instance = "verified" /\ verify_calls = 1
    /\ proc[1] = "running"

\* C11: when the two concurrent two-pass jobs have different working
\* directories, no cleanup removes a pass log the other job wrote, pass 2
\* of a job opens no pass log but the one its own pass 1 wrote, and each
\* directory only ever holds the log of the job that runs in it.
C11_OwnDirectoriesNoInterference ==
    (job_cwd[1] # job_cwd[2]) =>
        /\ swept_foreign = {}
        /\ \A j \in Jobs : job_log_read[j] \in {<<>>, <<0>>, <<j>>}
        /\ \A d \in Dirs : dir_passlog[d] # 0 => job_cwd[dir_passlog[d]] = d

C11_Witness ==
    /\ job_cwd[1] # job_cwd[2]
    /\ \A j \in Jobs : /\ job_pc[j] = "returned" /\ job_result[j]
                       /\ job_log_read[j] = <<j>>
                       /\ ~job_cleanup_raised[j]
    /\ \A d \in Dirs : dir_passlog[d] = 0

\* C12: a cleanup step that raises nothing leaves no pass log in the
\* working directory of its job, whichever job wrote the log; in a shared
\* directory this removes the log of a job whose pass 2 is still running.
C12_CleanupNotScopedByJob ==
    [][\A j \in Jobs :
          (job_pc[j] = "cleanup" /\ job_pc'[j] = "p2_check"
              /\ ~job_cleanup_raised'[j])
          => dir_passlog'[job_cwd[j]] = 0]_vars

\* job 1 swept the log that pass 1 of job 2 wrote; pass 2 of job 2, still
\* running, opened the pass log afterwards and found none
C12_Witness ==
    /\ job_cwd[1] = job_cwd[2]
    /\ 1 \in swept_foreign
    /\ job_returncode[2][1] = <<0>>
    /\ job_proc[2][2] = "running"
    /\ job_log_read[2] = <<0>>

\* C18: every add_recent_directory call leaves the list of its type with
\* the added directory at index 0, without a directory twice and with at
\* most 10 entries; when the directory was in the list, the new list is
\* the directory followed by the other entries in their old order.
C18_RecentListShape ==
    [][nadds' = nadds + 1 =>
          LET old == recent[directory_type]
              new == recent'[directory_type]
              d == last_directory'
          IN  /\ new # <<>> /\ new[1] = d
              /\ \A i \in 1..Len(new) : \A k \in 1..Len(new) :
                    new[i] = new[k] => i = k
              /\ Len(new) <= 10
              /\ (\E i \in 1..Len(old) : old[i] = d) =>
                    new = <<d>> \o SelectSeq(old, LAMBDA x : x # d)]_vars

\* eleven directories were added, the eleventh overflowing the list, and
\* then the last entry, 2, was added again
C18_Witness ==
    /\ nadds = 12
    /\ Len(recent[directory_type]) = 10
    /\ recent[directory_type][1] = 2
    /\ recent[directory_type][2] = 11
    /\ recent[directory_type][10] = 3

\* the names of key are the first names of other
IsKeyPrefix(key, other) ==
    /\ Len(Split(key)) <= Len(Split(other))
    /\ SubSeq(Split(other), 1, Len(Split(key))) = Split(key)

\* no default and no set call that returned put a value at key or below
NeverSet(key) ==
    /\ \A d \in Defaults : GetNode(DefaultSettings, Split(key), d) = d
    /\ \A other \in set_keys : ~IsKeyPrefix(key, other)

\* the values of the top-level keys other than the first name of key are
\* the same before and after the step
OtherTopLevelUnchanged(key) ==
    \A n \in (DOMAIN settings.items) \ {Split(key)[1]} :
        /\ n \in DOMAIN settings'.items
        /\ settings'.items[n] = settings.items[n]

\* C19: after a call set(k, v), get(k) returns v, for simple and for
\* nested keys; get of a key at or below which nothing was ever set
\* returns the default given; a set call leaves the values of the other
\* top-level keys as they were.
C19_SetGetRoundTrip ==
    /\ [](last_get.called =>
            /\ (nsets > 0 /\ last_get.key = last_key)
                  => last_get.value = last_value
            /\ NeverSet(last_get.key) => last_get.value = last_get.default)
    /\ [][nsets' = nsets + 1 => OtherTopLevelUnchanged(last_key')]_vars

\* C20: every command of the plan of a job, single-pass or two-pass, has
\* the scale filter with the configured width and height when both are
\* set, else the named scale filter when one is set, else no scale filter.
C20_ScaleFilterInEveryCommand ==
    \A i \in 1..Len(plan) :
        plan[i].scale =
            IF width # 0 /\ height # 0
            THEN [kind |-> "wh", w |-> width, h |-> height, named |-> ""]
            ELSE IF scale_filter # ""
            THEN [kind |-> "named", w |-> 0, h |-> 0, named |-> scale_filter]
            ELSE [kind |-> "none", w |-> 0, h |-> 0, named |-> ""]

\* C22: in a two-pass job every value _parse_ffmpeg_output hands to the
\* sink in pass 1 lies in [0,50) and every value it hands over in pass 2
\* lies in [50,100), whatever timestamp the line carries (also one beyond
\* the probed total duration).
C22_PassRanges ==
    (pc = "parsed" /\ two_pass) =>
        \A i \in 1..Len(sink) :
            IF pass_number = 1
            THEN 0 <= sink[i] /\ sink[i] < 50
            ELSE 50 <= sink[i] /\ sink[i] < 100

\* C26: a compress_video call that returned after a precondition failure
\* (input missing: FileNotFoundError; output present without overwrite:
\* FileExistsError) or after a failure of the probe (RuntimeError of
\* get_video_info) returned False, started no pass process, waited on
\* none and never invoked the sink.
C26_EarlyFailureSpawnsNothing ==
    (pc = "returned" /\ error \in {"FileNotFoundError", "FileExistsError",
                                   "RuntimeError"}) =>
        /\ result = FALSE
        /\ proc = NoProc
        /\ returncode = NoCode
        /\ waited = {}
        /\ sink = <<>>

C26_Witness ==
    /\ pc = "returned" /\ error = "RuntimeError"
    /\ probe_calls = 1 /\ has_sink /\ two_pass
    /\ result = FALSE /\ proc = NoProc /\ sink = <<>>

\* C27: when compress_video has returned, no pass process is running and
\* every pass process the job started has exited and has been waited on
\* (process.wait() returned), whether the call returned True or False and
\* also when _monitor_progress ended in its except clause.
C27_ReturnedMeansAllWaited ==
    pc = "returned" =>
        \A p \in Passes :
            /\ proc[p] # "running"
            /\ proc[p] = "exited" => p \in waited
            /\ p \in waited => proc[p] = "exited"

C27_Witness ==
    /\ pc = "returned" /\ two_pass
    /\ 2 \in monitor_error
    /\ proc = [p \in Passes |-> "exited"]
    /\ waited = Passes
    /\ result = FALSE

\* C28: when the loop of _monitor_progress has ended on an observed
\* termination (process.poll() is not None, no exception), the error
\* channel of the process holds no unread complete line: every line the
\* engine wrote before it exited has gone through _parse_ffmpeg_output.
C28_NoUnreadLineAtExit ==
    (/\ pc \in {"sp_wait", "p1_wait", "p2_wait"}
     /\ pass_number \notin monitor_error) =>
        \A i \in 1..Len(stderr) : stderr[i] \notin Delims

\* C29: a compress_video call whose every configured pass exited with
\* code zero returned True, also when the sink raised on a value handed
\* to it (an intermediate value or the final 100).
C29_OutcomeIndependentOfSink ==
    (pc = "returned" /\ AllPassesExitedZero) => result = TRUE

\* C30: in the batch worker of the GUI, once cancel_compression has set
\* is_cancelled the loop starts no further compress_video call, and the
\* worker that has ended after a cancellation has invoked
\* compression_finished (Cancel disabled, Close enabled).
C30_CancelReachesFinished ==
    /\ [][(is_cancelled /\ pc = "w_loop") => pc' # "validate"]_vars
    /\ []((pc = "w_done" /\ is_cancelled) => finished # "no")

\* splitting a buffer at every delimiter, LF or CR, whichever comes
\* first: the complete lines in stream order and the bytes after the
\* last delimiter
DelimIndexes(buf) == {i \in 1..Len(buf) : buf[i] \in Delims}
RECURSIVE SplitAtDelims(_)
SplitAtDelims(buf) ==
    IF DelimIndexes(buf) = {} THEN [lines |-> <<>>, rest |-> buf]
    ELSE LET k == CHOOSE i \in DelimIndexes(buf) :
                      \A j \in DelimIndexes(buf) : i <= j
             r == SplitAtDelims(SubSeq(buf, k + 1, Len(buf)))
         IN  [lines |-> <<SubSeq(buf, 1, k - 1)>> \o r.lines,
              rest |-> r.rest]

\* C23: for every chunk read and every mix of LF and CR in it, the units
\* one iteration of the loop of _monitor_progress passes to
\* _parse_ffmpeg_output are the non-empty individual lines of the
\* buffered stream, in stream order, none of them containing LF or CR,
\* and the buffer keeps exactly the bytes after the last delimiter.
C23_LineReassembly ==
    [][(pc = "mon_read" /\ pc' = "mon_poll") =>
          LET split == SplitAtDelims(buffer \o stderr)
          IN  /\ fed' = SelectSeq(split.lines, LAMBDA u : u # <<>>)
              /\ \A i \in 1..Len(fed') : DelimIndexes(fed'[i]) = {}
              /\ buffer' = split.rest
              /\ DelimIndexes(buffer') = {}]_vars

\* C24: the step of _monitor_progress that sees process.poll() is not
\* None ends the loop; on that step a non-empty buffer goes through
\* _parse_ffmpeg_output exactly once (one unit fed, at most one value to
\* the sink) and an empty one not at all, and the exit code has not been
\* inspected yet: the step leads to process.wait() with the outcome of the
\* call still undecided.
C24_DrainThenExitCode ==
    [][(pc = "mon_poll" /\ proc[pass_number] = "exited") =>
          /\ fed' = (IF buffer # <<>> THEN <<buffer>> ELSE <<>>)
          /\ sink' = sink \o parse_ffmpeg_output(buffer, total_duration,
                                 has_sink, two_pass, pass_number)
          /\ buffer' = <<>>
          /\ pc' \in {"sp_wait", "p1_wait", "p2_wait"}
          /\ pass_number \notin waited'
          /\ UNCHANGED <<result, error, proc, returncode>>]_vars

C24_Witness ==
    /\ pc = "sp_wait" /\ proc[1] = "exited"
    /\ 1 \notin monitor_error /\ 1 \notin waited
    /\ total_duration = 2
    /\ fed = <<<<TimeTok(1)>>>>
    /\ sink = <<50>>

\* C21: a get_video_info call does not wait forever: a compress_video
\* call that has reached the probe eventually leaves it, with the probe's
\* result or with its failure, also when the inspection process never
\* completes.
C21_ProbeEventuallyEnds ==
    (pc = "probe") ~> (pc # "probe")

Monitoring == pc \in {"mon_poll", "mon_read"}

\* C25: once the process of a pass has exited, _monitor_progress leaves
\* its loop (each iteration starts with process.poll()), and a call that
\* has started monitoring a pass eventually returns an outcome.
C25_MonitoringTerminates ==
    /\ (Monitoring /\ proc[pass_number] = "exited") ~> ~Monitoring
    /\ Monitoring ~> (pc = "returned")

C25_Witness ==
    /\ pc = "returned" /\ two_pass
    /\ proc = [p \in Passes |-> "exited"]
    /\ monitor_error = {}
    /\ nwritten = MaxLines
    /\ result = TRUE

====
